---- MODULE Spec2Model ----
(***************************************************************************)
(* Model of renamarion (src/src/renamarion/cli.py): the forbidden-character*)
(* rule table, the classifier is_item_invalid, the resolver                *)
(* get_item_renamed_path, the FileSystemData inventory and the interactive *)
(* run() command.                                                          *)
(*                                                                         *)
(* A character is a TLA+ string, a name (python str) is a sequence of      *)
(* characters, a path (pathlib.Path) is a sequence of names.               *)
(***************************************************************************)
EXTENDS Integers, Sequences, FiniteSets, TLC

VARIABLES
    pc,                    \* position of run(): confirm_path, rules, edit_dst, scan, resolve, done, aborted
    error,                 \* exception that ended the run: none, TypeError, OSError
    forbidden_mapping,     \* the rule table (insertion-ordered dict), a sequence of [key, value]
    edit_source_char,      \* rule chosen in the edit loop
    edit_destination_char, \* last replacement proposed in the edit loop
    iter_order,            \* slot order of this process' hash tables (set iteration order)
    fs,                    \* the directory tree under root: set of [path, type]
    walk,                  \* entries root.walk() has still to yield
    scanned_items,         \* FileSystemData.scanned_items
    worklist,              \* entries the resolution loops have still to propose
    log                    \* proposals made so far and their outcome

vars == <<pc, error, forbidden_mapping, edit_source_char, edit_destination_char,
          iter_order, fs, walk, scanned_items, worklist, log>>

---------------------------------------------------------------------------
(* Bounds *)

\* longest name of a tree holding a single entry
MaxNameLen == 3
\* longest name of a tree holding several entries
TreeNameLen == 2

---------------------------------------------------------------------------
(* Characters *)

LT == "<"
GT == ">"
COLON == ":"
DQUOTE == "\""
PIPE == "|"
QMARK == "?"
STAR == "*"
PUA == "uf022"
BACKSLASH == "\\"
SLASH == "/"
CR == "cr"
SPACE == " "
COMMA == ","
DOT == "."
NoChar == "none"

\* the key Termination("termination") of the rule table
TerminationKey == "termination"

\* characters of the names of single-entry trees
NameChars == {"a", QMARK, COMMA, DOT, PUA}
\* characters of the invalid names of trees with several entries
TreeChars == {COLON, COMMA}
\* the valid name of trees with several entries
PlainName == <<"a">>
\* rules the operator chooses to edit
EditSources == {LT, COLON, TerminationKey}
\* replacements proposed by the operator in the edit loop
EditProposals == {<<GT>>, <<"x">>, <<"x", COLON>>}

RECURSIVE NamesUpTo(_, _)
NamesUpTo(chars, n) ==
    IF n = 0 THEN {}
    ELSE LET shorter == NamesUpTo(chars, n - 1)
         IN  {<<c>> : c \in chars} \cup shorter
             \cup {Append(s, c) : s \in shorter, c \in chars}

---------------------------------------------------------------------------
(* python str *)

\* str.replace(old, new) for a one-character old
RECURSIVE str_replace(_, _, _)
str_replace(s, old, new) ==
    IF s = <<>> THEN <<>>
    ELSE (IF Head(s) = old THEN new ELSE <<Head(s)>>) \o str_replace(Tail(s), old, new)

\* str.rstrip(ch) for a one-character ch
RECURSIVE str_rstrip(_, _)
str_rstrip(s, ch) ==
    IF s # <<>> /\ s[Len(s)] = ch THEN str_rstrip(SubSeq(s, 1, Len(s) - 1), ch) ELSE s

\* str.endswith(tuple of one-character suffixes)
str_endswith(s, suffixes) == s # <<>> /\ s[Len(s)] \in suffixes

\* `sub in s` for a one-character sub
RECURSIVE str_contains(_, _)
str_contains(s, sub) ==
    IF s = <<>> THEN FALSE
    ELSE IF Head(s) = sub THEN TRUE ELSE str_contains(Tail(s), sub)

---------------------------------------------------------------------------
(* pathlib *)

\* Path.parent
PathParent(p) == IF Len(p) = 0 THEN p ELSE SubSeq(p, 1, Len(p) - 1)

\* Path.name
PathName(p) == IF Len(p) = 0 THEN <<>> ELSE p[Len(p)]

\* Path / name: an empty segment and a "." segment are dropped, ".." is kept
PathJoin(p, name) == IF name = <<>> \/ name = <<DOT>> THEN p ELSE Append(p, name)

\* root = Path(path)
root == << <<"r">> >>

---------------------------------------------------------------------------
(* Rules *)

isinstance_str(key) == key # TerminationKey

isinstance_MatcherAction(key) == key = TerminationKey

\* Termination.matches
Termination_matches(item_name) == str_endswith(item_name, {COMMA, SPACE, DOT, PUA})

\* Termination.replace
Termination_replace(item_name) ==
    str_rstrip(str_rstrip(str_rstrip(str_rstrip(str_rstrip(item_name,
        SPACE), COMMA), DOT), PUA), SPACE)

\* forbidden_mapping as built by get_forbidden_characters
DefaultMapping ==
    << [key |-> LT, value |-> <<"(">>],
       [key |-> GT, value |-> <<")">>],
       [key |-> COLON, value |-> <<"-">>],
       [key |-> DQUOTE, value |-> <<"-">>],
       [key |-> PIPE, value |-> <<"_">>],
       [key |-> QMARK, value |-> <<DOT>>],
       [key |-> STAR, value |-> <<"x">>],
       [key |-> PUA, value |-> <<"-">>],
       [key |-> BACKSLASH, value |-> <<"_">>],
       [key |-> SLASH, value |-> <<"_">>],
       [key |-> CR, value |-> <<>>],
       [key |-> TerminationKey, value |-> <<TerminationKey>>] >>

\* forbidden_mapping.keys()
Keys(mapping) == [i \in 1..Len(mapping) |-> mapping[i].key]

KeySet(mapping) == {mapping[i].key : i \in 1..Len(mapping)}

\* forbidden_mapping[key]
Lookup(mapping, key) == mapping[CHOOSE i \in 1..Len(mapping) : mapping[i].key = key].value

\* forbidden_mapping[key] = value
Store(mapping, key, value) ==
    [i \in 1..Len(mapping) |->
        IF mapping[i].key = key THEN [key |-> key, value |-> value] ELSE mapping[i]]

\* iteration over a python set: the elements in hash-table slot order
SetIteration(s) == SelectSeq(iter_order, LAMBDA k : k \in s)

---------------------------------------------------------------------------
(* is_item_invalid *)

\* the condition of the comprehension of is_item_invalid
KeyMatches(char, item_name) ==
    \/ isinstance_str(char) /\ str_contains(item_name, char)
    \/ isinstance_MatcherAction(char) /\ Termination_matches(item_name)

RECURSIVE MatchingKeys(_, _, _)
MatchingKeys(keys, i, item_name) ==
    IF i > Len(keys) THEN {}
    ELSE (IF KeyMatches(keys[i], item_name) THEN {keys[i]} ELSE {})
         \cup MatchingKeys(keys, i + 1, item_name)

\* is_item_invalid over the literal keys only
is_item_invalid_literal_only(item_name, mapping) ==
    LET problems == {k \in MatchingKeys(Keys(mapping), 1, item_name) : isinstance_str(k)}
    IN  IF Cardinality(problems) # 0
        THEN [invalid |-> TRUE, problems |-> problems]
        ELSE [invalid |-> FALSE, problems |-> {}]

is_item_invalid(item_name, mapping) ==
    LET problems == MatchingKeys(Keys(mapping), 1, item_name)
    IN  IF Cardinality(problems) # 0
        THEN [invalid |-> TRUE, problems |-> problems]
        ELSE [invalid |-> FALSE, problems |-> {}]

\* parse_item: the FileSystemItem added to data
parse_item(folder, item_name, item_type, mapping) ==
    LET r == is_item_invalid(item_name, mapping)
    IN  [type |-> item_type, invalid |-> r.invalid,
         path |-> PathJoin(folder, item_name), problems |-> r.problems]

---------------------------------------------------------------------------
(* get_item_renamed_path *)

\* one iteration of the loop over item.problems
ApplyProblem(new_path, problem, mapping) ==
    IF isinstance_str(problem)
    THEN PathJoin(PathParent(new_path),
                  str_replace(PathName(new_path), problem, Lookup(mapping, problem)))
    ELSE PathJoin(PathParent(new_path), Termination_replace(PathName(new_path)))

RECURSIVE ApplyProblems(_, _, _, _)
ApplyProblems(new_path, order, i, mapping) ==
    IF i > Len(order) THEN new_path
    ELSE ApplyProblems(ApplyProblem(new_path, order[i], mapping), order, i + 1, mapping)

\* get_item_renamed_path when item.problems is iterated in the given order
renamed_path_in_order(item, order, mapping) ==
    IF ~item.invalid THEN item.path
    ELSE ApplyProblems(item.path, order, 1, mapping)

get_item_renamed_path(item, mapping) ==
    renamed_path_in_order(item, SetIteration(item.problems), mapping)

---------------------------------------------------------------------------
(* MultiProblems and FileSystemData *)

Range(seq) == {seq[i] : i \in 1..Len(seq)}

\* a string that only tells how many problems there are
MultiProblems_str_size_only(problems) == Cardinality(problems)
\* MultiProblems.__str__: sorted() of the one-element list [problems] leaves
\* it as it is, and str() of it lists the set's elements in iteration order.
\* __hash__ and __eq__ both go through this string; the hash of a string is
\* taken to be collision free on the strings of one run.
MultiProblems_str(problems) == SetIteration(problems)

directories(data) == SelectSeq(data, LAMBDA item : item.type = "directory")

\* files without the filter on the type
files_of_any_type(data) == data
\* FileSystemData.files
files(data) == SelectSeq(data, LAMBDA item : item.type = "file")

directories_count(data) == Len(directories(data))

file_count(data) == Len(files(data))

problematic_files(data) == SelectSeq(files(data), LAMBDA item : item.invalid)

problematic_directories(data) == SelectSeq(directories(data), LAMBDA item : item.invalid)

problematic_files_count(data) == Len(problematic_files(data))

problematic_directories_count(data) == Len(problematic_directories(data))

\* the dict comprehension shared by problematic_files_types and
\* problematic_directories_types; a key is identified by its string
ProblemTypes(items) ==
    LET unique_problems == {MultiProblems_str(items[i].problems) : i \in 1..Len(items)}
    IN  [problem_key \in unique_problems |->
            SelectSeq(items, LAMBDA item : MultiProblems_str(item.problems) = problem_key)]

problematic_files_types(data) == ProblemTypes(problematic_files(data))

problematic_directories_types(data) == ProblemTypes(problematic_directories(data))

problematic_files_types_counts(data) ==
    [problem_key \in DOMAIN problematic_files_types(data) |->
        Len(problematic_files_types(data)[problem_key])]

problematic_directories_types_counts(data) ==
    [problem_key \in DOMAIN problematic_directories_types(data) |->
        Len(problematic_directories_types(data)[problem_key])]

---------------------------------------------------------------------------
(* The directory tree and Path.rename *)

Exists(tree, p) == \E e \in tree : e.path = p

TypeOf(tree, p) == (CHOOSE e \in tree : e.path = p).type

IsPrefix(p, q) == Len(p) <= Len(q) /\ SubSeq(q, 1, Len(p)) = p

HasChildren(tree, p) == \E e \in tree : e.path # p /\ IsPrefix(p, e.path)

\* the tree after src has been moved to dst
Moved(tree, src, dst) ==
    {IF IsPrefix(src, e.path)
     THEN [e EXCEPT !.path = dst \o SubSeq(e.path, Len(src) + 1, Len(e.path))]
     ELSE e : e \in {x \in tree : x.path # dst}}

\* item.path.rename(renamed_path): the results the operating system can give.
\* A missing source or parent, a target that is an ancestor, a target of the
\* other type and a non-empty target fail; an existing empty target of the
\* same type is replaced or refused, according to the platform.
rename_outcomes(tree, src, dst) ==
    LET failure == [result |-> "OSError", fs |-> tree]
        success == [result |-> "renamed", fs |-> Moved(tree, src, dst)]
    IN  IF ~Exists(tree, src) \/ ~Exists(tree, PathParent(dst)) THEN {failure}
        ELSE IF PathName(dst) = <<DOT, DOT>> \/ IsPrefix(dst, src) THEN {failure}
        ELSE IF Exists(tree, dst)
             THEN IF TypeOf(tree, dst) = TypeOf(tree, src) /\ ~HasChildren(tree, dst)
                  THEN {failure, success}
                  ELSE {failure}
        ELSE {success}

---------------------------------------------------------------------------
(* Trees scanned *)

None == <<>>

\* "." and ".." are never names of directory entries
Names == NamesUpTo(NameChars, MaxNameLen) \ {<<DOT>>, <<DOT, DOT>>}

TreeNames == {PlainName} \cup NamesUpTo(TreeChars, TreeNameLen)

ItemTypes == {"directory", "file"}

\* a tree: two entries of root and one file inside the first entry
SingleTrees ==
    {[n1 |-> n, t1 |-> t, n2 |-> None, t2 |-> "file", n3 |-> None] :
        n \in Names, t \in ItemTypes}

MultiTrees ==
    {tr \in [n1 : TreeNames, t1 : ItemTypes, n2 : TreeNames \cup {None},
             t2 : ItemTypes, n3 : TreeNames \cup {None}] :
        /\ tr.n2 # tr.n1
        /\ tr.n2 = None => tr.t2 = "file"
        /\ tr.n3 # None => tr.t1 = "directory"
        /\ tr.n2 # None \/ tr.n3 # None}

Trees == SingleTrees \cup MultiTrees

TopLevel(tr) ==
    <<[name |-> tr.n1, type |-> tr.t1]>>
    \o (IF tr.n2 = None THEN <<>> ELSE <<[name |-> tr.n2, type |-> tr.t2]>>)

\* root.walk(), top down: the directories of a folder, then its files
WalkOf(tr) ==
    LET triple(e) == [folder |-> root, name |-> e.name, type |-> e.type]
        top == [i \in 1..Len(TopLevel(tr)) |-> triple(TopLevel(tr)[i])]
    IN  SelectSeq(top, LAMBDA e : e.type = "directory")
        \o SelectSeq(top, LAMBDA e : e.type = "file")
        \o (IF tr.n3 = None THEN <<>>
            ELSE <<[folder |-> PathJoin(root, tr.n1), name |-> tr.n3, type |-> "file"]>>)

FsOf(tr) ==
    {[path |-> root, type |-> "directory"]}
    \cup {[path |-> PathJoin(e.folder, e.name), type |-> e.type] : e \in Range(WalkOf(tr))}

Perms(S) ==
    {p \in [1..Cardinality(S) -> S] : \A i, j \in 1..Cardinality(S) : i # j => p[i] # p[j]}

\* the keys some name of the tree violates
KeysIn(tr) ==
    UNION {is_item_invalid(e.name, DefaultMapping).problems : e \in Range(WalkOf(tr))}

\* the slot orders that differ on the keys of the tree
SlotOrders(tr) ==
    {p \o SelectSeq(Keys(DefaultMapping), LAMBDA k : k \notin KeysIn(tr)) :
        p \in Perms(KeysIn(tr))}

---------------------------------------------------------------------------
(* run *)

Init ==
    /\ pc = "confirm_path"
    /\ error = "none"
    /\ forbidden_mapping = DefaultMapping
    /\ edit_source_char = NoChar
    /\ edit_destination_char = <<>>
    /\ \E tr \in Trees :
        /\ fs = FsOf(tr)
        /\ walk = WalkOf(tr)
        /\ iter_order \in SlotOrders(tr)
    /\ scanned_items = <<>>
    /\ worklist = <<>>
    /\ log = <<>>

\* click.confirm("Is this path the one you planned"), `if not status: return`
ConfirmPath(status) ==
    /\ pc = "confirm_path"
    /\ pc' = IF status THEN "rules" ELSE "done"
    /\ UNCHANGED <<error, forbidden_mapping, edit_source_char, edit_destination_char,
                   iter_order, fs, walk, scanned_items, worklist, log>>

\* get_forbidden_characters: "Do you find this to be ok ?" answered yes
AcceptRules ==
    /\ pc = "rules"
    /\ pc' = "scan"
    /\ UNCHANGED <<error, forbidden_mapping, edit_source_char, edit_destination_char,
                   iter_order, fs, walk, scanned_items, worklist, log>>

\* get_forbidden_characters: answered no, "What character to edit ?"
ChooseEditSource(src) ==
    /\ pc = "rules"
    /\ src \in KeySet(forbidden_mapping)
    /\ pc' = "edit_dst"
    /\ edit_source_char' = src
    /\ UNCHANGED <<error, forbidden_mapping, edit_destination_char,
                   iter_order, fs, walk, scanned_items, worklist, log>>

\* char_validation: the list [c in char for c in keys] is built in full before
\* any() looks at it, and `c in char` raises TypeError for a key that is not a str
char_validation(char, mapping) ==
    IF \E i \in 1..Len(mapping) : ~isinstance_str(mapping[i].key) THEN "TypeError"
    ELSE IF \E i \in 1..Len(mapping) : str_contains(char, mapping[i].key) THEN "ValueError"
    ELSE "ok"

\* get_forbidden_characters: "What character to replace it with ?"; only
\* ValueError is caught and prompts again
ProposeDestination(char) ==
    /\ pc = "edit_dst"
    /\ edit_destination_char' = char
    /\ LET outcome == char_validation(char, forbidden_mapping)
       IN  /\ pc' = CASE outcome = "TypeError" -> "aborted"
                      [] outcome = "ValueError" -> "edit_dst"
                      [] OTHER -> "rules"
           /\ error' = IF outcome = "TypeError" THEN "TypeError" ELSE error
           /\ forbidden_mapping' =
                IF outcome = "ok"
                THEN Store(forbidden_mapping, edit_source_char, char)
                ELSE forbidden_mapping
    /\ UNCHANGED <<edit_source_char, iter_order, fs, walk, scanned_items, worklist, log>>

\* one parse_item call of the scan loops
ParseItem ==
    /\ pc = "scan"
    /\ walk # <<>>
    /\ scanned_items' = Append(scanned_items,
            parse_item(Head(walk).folder, Head(walk).name, Head(walk).type,
                       forbidden_mapping))
    /\ walk' = Tail(walk)
    /\ UNCHANGED <<pc, error, forbidden_mapping, edit_source_char, edit_destination_char,
                   iter_order, fs, worklist, log>>

RECURSIVE Flatten(_, _, _)
Flatten(types, order, i) ==
    IF i > Len(order) THEN <<>> ELSE types[order[i]] \o Flatten(types, order, i + 1)

\* the end of the scan, the report, and the evaluation of
\* [data.problematic_directories_types, data.problematic_files_types];
\* each dict lists its groups in the slot order of a set of MultiProblems
Report ==
    /\ pc = "scan"
    /\ walk = <<>>
    /\ \E dorder \in Perms(DOMAIN problematic_directories_types(scanned_items)),
          forder \in Perms(DOMAIN problematic_files_types(scanned_items)) :
            worklist' = Flatten(problematic_directories_types(scanned_items), dorder, 1)
                        \o Flatten(problematic_files_types(scanned_items), forder, 1)
    /\ pc' = IF worklist' = <<>> THEN "done" ELSE "resolve"
    /\ UNCHANGED <<error, forbidden_mapping, edit_source_char, edit_destination_char,
                   iter_order, fs, walk, scanned_items, log>>

\* the rename without the test of agreed
ResolveOutcomes_unconfirmed(item_path, renamed_path, agreed) ==
    rename_outcomes(fs, item_path, renamed_path)
\* `if agreed: item.path.rename(renamed_path)`, else "Did not rename"
ResolveOutcomes(item_path, renamed_path, agreed) ==
    IF agreed THEN rename_outcomes(fs, item_path, renamed_path)
    ELSE {[result |-> "not_renamed", fs |-> fs]}

\* one iteration of the resolution loop; an exception of rename ends run()
ResolveItem(agreed) ==
    /\ pc = "resolve"
    /\ worklist # <<>>
    /\ LET item == Head(worklist)
           renamed_path == get_item_renamed_path(item, forbidden_mapping)
       IN  \E out \in ResolveOutcomes(item.path, renamed_path, agreed) :
            /\ fs' = out.fs
            /\ log' = Append(log, [item |-> item, renamed_path |-> renamed_path,
                                   agreed |-> agreed, result |-> out.result])
            /\ error' = IF out.result = "OSError" THEN "OSError" ELSE error
            /\ pc' = IF out.result = "OSError" THEN "aborted"
                     ELSE IF Tail(worklist) = <<>> THEN "done" ELSE "resolve"
    /\ worklist' = Tail(worklist)
    /\ UNCHANGED <<forbidden_mapping, edit_source_char, edit_destination_char,
                   iter_order, walk, scanned_items>>

Next ==
    \/ \E status \in BOOLEAN : ConfirmPath(status)
    \/ AcceptRules
    \/ \E src \in EditSources : ChooseEditSource(src)
    \/ \E char \in EditProposals : ProposeDestination(char)
    \/ ParseItem
    \/ Report
    \/ \E agreed \in BOOLEAN : ResolveItem(agreed)

Spec == Init /\ [][Next]_vars

---------------------------------------------------------------------------
(* Properties *)

\* what the rule set is documented to do: a literal key matches a name that
\* contains it, Termination a name that ends with a trailing character
RuleMatches(key, name) ==
    IF key = TerminationKey
    THEN Len(name) > 0 /\ name[Len(name)] \in {COMMA, SPACE, DOT, PUA}
    ELSE \E i \in 1..Len(name) : name[i] = key

\* the transform of one rule
RuleApply(key, name) ==
    IF key = TerminationKey THEN Termination_replace(name)
    ELSE str_replace(name, key, Lookup(forbidden_mapping, key))

Scanned == Range(scanned_items)

\* C1: the name of the renamed path of every invalid entry is classified as
\* valid with no violated rule, so that resolving the resolved entry returns
\* it unchanged
C1_ResolvedNameIsValid ==
    \A item \in Scanned :
        item.invalid =>
            LET renamed_path == get_item_renamed_path(item, forbidden_mapping)
                again == parse_item(PathParent(renamed_path), PathName(renamed_path),
                                    item.type, forbidden_mapping)
            IN  /\ ~again.invalid
                /\ again.problems = {}
                /\ get_item_renamed_path(again, forbidden_mapping) = renamed_path

\* C2: a rule that matches a name does not match the name its transform
\* makes of it
C2_RuleApplicationRemovesViolation ==
    \A item \in Scanned :
        \A key \in item.problems :
            ~RuleMatches(key, RuleApply(key, PathName(item.path)))

\* C3: the renamed path of an entry is the same in whatever order the set of
\* its violated rules is iterated
C3_ResolutionOrderIndependent ==
    \A item \in Scanned :
        \A o1, o2 \in Perms(item.problems) :
            renamed_path_in_order(item, o1, forbidden_mapping)
                = renamed_path_in_order(item, o2, forbidden_mapping)

\* C4: an entry is invalid iff some rule matches its name, its violated set
\* is the set of the keys of all the matching rules, and the set is empty iff
\* the entry is not invalid
C4_ClassificationIsExact ==
    \A item \in Scanned :
        LET name == PathName(item.path)
        IN  /\ item.invalid <=> \E key \in KeySet(forbidden_mapping) : RuleMatches(key, name)
            /\ item.problems = {key \in KeySet(forbidden_mapping) : RuleMatches(key, name)}
            /\ item.problems = {} <=> ~item.invalid

C4_Witness ==
    \E item \in Scanned :
        /\ TerminationKey \in item.problems
        /\ Cardinality(item.problems) >= 2

RECURSIVE SumOver(_, _)
SumOver(f, S) ==
    IF S = {} THEN 0
    ELSE LET k == CHOOSE x \in S : TRUE IN f[k] + SumOver(f, S \ {k})

\* the grouping of the invalid entries of one type is the partition by
\* violated set
GroupsByProblemSet(problematic, types, counts) ==
    /\ \A a, b \in Range(problematic) :
        (\E k \in DOMAIN types : a \in Range(types[k]) /\ b \in Range(types[k]))
            <=> a.problems = b.problems
    /\ Cardinality(DOMAIN types) = Cardinality({a.problems : a \in Range(problematic)})
    /\ \A a \in Range(problematic) :
        Cardinality({k \in DOMAIN types : a \in Range(types[k])}) = 1
    /\ \A k \in DOMAIN types : Range(types[k]) \subseteq Range(problematic)
    /\ SumOver(counts, DOMAIN counts) = Len(problematic)

\* C5: problematic_files_types and problematic_directories_types put two
\* invalid entries of their type in the same group iff their violated sets
\* are equal, hold one group per violated set observed, and hold every
\* invalid entry in exactly one group, so that the counts sum to the
\* problematic count
C5_GroupingIsPartitionByProblemSet ==
    /\ GroupsByProblemSet(problematic_files(scanned_items),
                          problematic_files_types(scanned_items),
                          problematic_files_types_counts(scanned_items))
    /\ SumOver(problematic_files_types_counts(scanned_items),
               DOMAIN problematic_files_types_counts(scanned_items))
            = problematic_files_count(scanned_items)
    /\ GroupsByProblemSet(problematic_directories(scanned_items),
                          problematic_directories_types(scanned_items),
                          problematic_directories_types_counts(scanned_items))
    /\ SumOver(problematic_directories_types_counts(scanned_items),
               DOMAIN problematic_directories_types_counts(scanned_items))
            = problematic_directories_count(scanned_items)

C5_Witness ==
    /\ pc = "resolve"
    /\ \E a, b \in Range(problematic_files(scanned_items)) :
        a # b /\ a.problems = b.problems /\ Cardinality(a.problems) = 2
    /\ problematic_directories_count(scanned_items) = 1

\* a directory and a file that violate exactly {":"}, and no other such entry
ColonPair(d, f) ==
    /\ d.type = "directory" /\ f.type = "file"
    /\ d.problems = {COLON} /\ f.problems = {COLON}
    /\ \A item \in Scanned : item.problems = {COLON} => item \in {d, f}

\* C6 as claimed: a directory and a file that both violate exactly {":"} are
\* together in one group of problematic_*_types, whose count is 2
C6_DirectoryAndFileShareGroup ==
    \A d, f \in Scanned :
        ColonPair(d, f) =>
            \E types \in {problematic_directories_types(scanned_items),
                          problematic_files_types(scanned_items)} :
                \E k \in DOMAIN types :
                    /\ d \in Range(types[k])
                    /\ f \in Range(types[k])
                    /\ Len(types[k]) = 2

\* C6 as amended: the directory is in the group {":"} of
\* problematic_directories_types and the file in the group {":"} of
\* problematic_files_types, each group has count 1, and no group holds both
C6_DirectoryAndFileGroupedPerType ==
    \A d, f \in Scanned :
        ColonPair(d, f) =>
            LET k == MultiProblems_str({COLON})
                dtypes == problematic_directories_types(scanned_items)
                ftypes == problematic_files_types(scanned_items)
            IN  /\ k \in DOMAIN dtypes /\ k \in DOMAIN ftypes
                /\ Range(dtypes[k]) = {d}
                /\ Range(ftypes[k]) = {f}
                /\ problematic_directories_types_counts(scanned_items)[k] = 1
                /\ problematic_files_types_counts(scanned_items)[k] = 1
                /\ \A types \in {dtypes, ftypes} : \A g \in DOMAIN types :
                    ~(d \in Range(types[g]) /\ f \in Range(types[g]))

C6_Witness ==
    /\ pc = "resolve"
    /\ \E d, f \in Scanned : ColonPair(d, f)

\* C7: a rename that fails does not end the run; the entries that remain are
\* still proposed
C7_RenameFailureDoesNotAbort ==
    (\E i \in DOMAIN log : log[i].result = "OSError") =>
        /\ pc \in {"resolve", "done"}
        /\ pc = "done" => worklist = <<>>

\* C8: a proposed replacement that contains a key of the rule set is not
\* stored, and the operator is asked again for a replacement
C8_RejectedProposalPromptsAgain ==
    [][(/\ pc = "edit_dst"
        /\ \E key \in KeySet(forbidden_mapping) :
            isinstance_str(key) /\ str_contains(edit_destination_char', key))
       => (/\ forbidden_mapping' = forbidden_mapping
           /\ pc' = "edit_dst"
           /\ error' = "none")]_vars

\* C9: the tree changes only in the resolution phase, after the scan, by the
\* rename of the entry the operator has just confirmed; a declined proposal
\* and a declined root path leave the tree as it is and raise no error
C9_RenameOnlyWhenConfirmed ==
    [][/\ fs' # fs =>
            /\ pc = "resolve" /\ walk = <<>>
            /\ Len(log') = Len(log) + 1
            /\ log'[Len(log')].agreed
            /\ log'[Len(log')].item = Head(worklist)
            /\ fs' = Moved(fs, Head(worklist).path, log'[Len(log')].renamed_path)
       /\ (Len(log') > Len(log) /\ ~log'[Len(log')].agreed) =>
            /\ fs' = fs
            /\ error' = "none"
            /\ pc' \in {"resolve", "done"}
       /\ (pc = "confirm_path" /\ pc' = "done") => (fs' = fs /\ error' = "none")
      ]_vars

C9_Witness ==
    \E i, j \in DOMAIN log :
        /\ log[i].agreed /\ log[i].result = "renamed"
        /\ ~log[j].agreed /\ log[j].result = "not_renamed"

\* C10: the renamed path of a valid entry is its path; the renamed path of an
\* invalid entry lies directly in the entry's parent directory and ends with
\* a non-empty name: it is neither the parent nor a path of another directory
C10_RenamedPathStaysInParent ==
    \A item \in Scanned :
        LET renamed_path == get_item_renamed_path(item, forbidden_mapping)
        IN  IF ~item.invalid THEN renamed_path = item.path
            ELSE /\ Len(renamed_path) = Len(item.path)
                 /\ PathParent(renamed_path) = PathParent(item.path)
                 /\ PathName(renamed_path) # <<>>
                 /\ PathName(renamed_path) # <<DOT, DOT>>

====
